---- MODULE Spec2Model ----
(***************************************************************************)
(* State-machine model of eval/compile.go: the Compiler that turns a       *)
(* parsed chunk into an Op.  The recursive descent is modelled step by     *)
(* step: the control stack ctl is the chain of compileForm and             *)
(* compileClosure calls that are in progress, and each action is one step  *)
(* of that descent acting on the compiler's ephemeral state (cp.name,      *)
(* cp.text, cp.scopes, cp.enclosed).  The shape of the syntax tree is the  *)
(* nondeterministic input: every sequence of steps the model allows is the *)
(* traversal of some tree, and the special forms (code outside this file,  *)
(* called at compile.go:213) may call pushVar, popVar and ResolveVar.      *)
(***************************************************************************)
EXTENDS Integers, Sequences, FiniteSets, TLC

VARIABLES
    status,       \* "idle" | "running" | "done" | "failed" | "panicked": the Compile call
    name,         \* cp.name
    text,         \* cp.text
    scopes,       \* cp.scopes: sequence of frames, frame 1 is scopes[0] of the code
    enclosed,     \* cp.enclosed
    callerMap,    \* the map object the caller passed as scope (frame 0 is this object)
    call,         \* the arguments of the Compile call, the scope as the caller built it
    ctl,          \* calls of compileForm / compileClosure in progress, innermost last
    ev,           \* the step that was taken last, with what it returned
    result,       \* (op, err) returned by the last Compile call
    rt,           \* the evaluator that runs a compiled port op: its ports, the
                  \* port the op produced, what was closed
    th            \* two goroutines that call Compile on this one Compiler

vars == <<status, name, text, scopes, enclosed, callerMap, call, ctl, ev, result, rt, th>>

----------------------------------------------------------------------------
(* Bounds of the model *)

\* largest number of frames on cp.scopes (root frame + nested closures)
MaxScopes == 3
\* largest file descriptor of a redirection
MaxFd == 2
\* largest number of redirections of one form
MaxRedirs == 2
\* number of ports of the evaluator that runs a port op
MaxPorts == 2

----------------------------------------------------------------------------
(* Values *)

Nil == "nil"
StringType == "string"
ClosureType == "closure"
Types == {StringType, ClosureType}

\* variable names that the compiled text binds and references.  Every
\* operation of the compiler touches the bindings and the captures of one
\* name only (pushVar, popVar, ResolveVar, and the merge loop name by name),
\* so one name shows all that any name can do; it is fn-f so that it is
\* also the variable that resolveCommand("f") looks up
VarNames == {"fn-f"}
\* command names and sigils handed to resolveCommand
CmdNames == {"f", "g", "h", "e"}
\* the registries of builtin special forms and builtin functions
builtinSpecials == {"f", "g"}
builtinFuncs == {"f", "h"}

\* byte offsets of nodes
Positions == {0, 5}
\* (name, text) pairs passed to Compile
Units == {<<"a.elv", "f $fn-f">>, <<"b.elv", "g {f}">>}

\* a Go map[string]Type: a function whose domain is the set of keys present
EmptyMap == [n \in {} |-> Nil]
Maps == UNION {[S -> Types] : S \in SUBSET VarNames}
MapPut(m, k, v) == [n \in DOMAIN m \cup {k} |-> IF n = k THEN v ELSE m[n]]
MapDelete(m, k) == [n \in DOMAIN m \ {k} |-> m[n]]
MapGet(m, k) == IF k \in DOMAIN m THEN m[k] ELSE Nil

\* the scopes a caller passes to Compile
RootScopes == Maps

NoErr == [name |-> "", text |-> "", pos |-> -1, msg |-> <<>>]
NoOp == "nil"
NoEv == [op |-> "none"]

\* commandType values (compile.go:26-32)
commandBuiltinFunction == "BuiltinFunction"
commandBuiltinSpecial == "BuiltinSpecial"
commandDefinedFunction == "DefinedFunction"
commandClosure == "Closure"
commandExternal == "External"
\* the zero value &commandResolution{}
ZeroResolution == [commandType |-> commandBuiltinFunction, builtinFunc |-> Nil, builtinSpecial |-> Nil]

----------------------------------------------------------------------------
(* Scope stack: pushScope, popScope, pushVar, popVar, hasVarOnThisScope *)

pushScope(s) == Append(s, EmptyMap)

\* mutant: the frame stays on the stack
popScope_KeepFrame(s) == s

popScope(s) == SubSeq(s, 1, Len(s) - 1)

\* mutant: binds in the outermost frame instead of the innermost one
pushVar_Outermost(s, n, t) == [s EXCEPT ![1] = MapPut(s[1], n, t)]

pushVar(s, n, t) == [s EXCEPT ![Len(s)] = MapPut(s[Len(s)], n, t)]

popVar(s, n) == [s EXCEPT ![Len(s)] = MapDelete(s[Len(s)], n)]

\* mutant: looks for the name in every frame instead of the innermost one
hasVarOnThisScope_AnyScope(s, n) == \E i \in 1..Len(s) : n \in DOMAIN s[i]

hasVarOnThisScope(s, n) == n \in DOMAIN s[Len(s)]

\* mutant: only the frame the search starts in is looked at
FindFrame_ThisScopeOnly(s, i, n) ==
    IF i = 0 THEN 0 ELSE IF MapGet(s[i], n) # Nil THEN i ELSE 0

\* the loop of ResolveVar: index of the innermost frame, from i downwards,
\* that binds n; 0 when no frame does
RECURSIVE FindFrame(_, _, _)
FindFrame(s, i, n) ==
    IF i = 0 THEN 0
    ELSE IF MapGet(s[i], n) # Nil THEN i
    ELSE FindFrame(s, i - 1, n)

\* value returned by ResolveVar
ResolveVarType(s, n) ==
    LET i == FindFrame(s, Len(s), n) IN IF i = 0 THEN Nil ELSE s[i][n]

\* mutant: only a binding of closure type is recorded as captured
ResolveVarEnclosed_ClosureOnly(s, enc, n) ==
    LET i == FindFrame(s, Len(s), n)
    IN IF i # 0 /\ i < Len(s) /\ s[i][n] = ClosureType THEN MapPut(enc, n, s[i][n]) ELSE enc

\* cp.enclosed after ResolveVar
ResolveVarEnclosed(s, enc, n) ==
    LET i == FindFrame(s, Len(s), n)
    IN IF i # 0 /\ i < Len(s) THEN MapPut(enc, n, s[i][n]) ELSE enc

\* "fn-" + name (compile.go:160)
FnVar(c) ==
    CASE c = "f" -> "fn-f"
      [] c = "g" -> "fn-g"
      [] c = "h" -> "fn-h"
      [] OTHER -> "fn-e"

\* mutant: the builtin registries are consulted before the user's functions
resolveCommand_BuiltinFirst(s, c) ==
    IF c \in builtinSpecials
    THEN [ZeroResolution EXCEPT !.commandType = commandBuiltinSpecial, !.builtinSpecial = c]
    ELSE IF c \in builtinFuncs
    THEN [ZeroResolution EXCEPT !.commandType = commandBuiltinFunction, !.builtinFunc = c]
    ELSE IF ResolveVarType(s, FnVar(c)) = ClosureType
    THEN [ZeroResolution EXCEPT !.commandType = commandDefinedFunction]
    ELSE [ZeroResolution EXCEPT !.commandType = commandExternal]

\* resolveCommand: the commandResolution it leaves in *cr
resolveCommand(s, c) ==
    IF ResolveVarType(s, FnVar(c)) = ClosureType
    THEN [ZeroResolution EXCEPT !.commandType = commandDefinedFunction]
    ELSE IF c \in builtinSpecials
    THEN [ZeroResolution EXCEPT !.commandType = commandBuiltinSpecial, !.builtinSpecial = c]
    ELSE IF c \in builtinFuncs
    THEN [ZeroResolution EXCEPT !.commandType = commandBuiltinFunction, !.builtinFunc = c]
    ELSE [ZeroResolution EXCEPT !.commandType = commandExternal]

\* mutant: every name of the closure's capture set is taken over, bound in
\* the innermost frame or not
MergeEnclosed_NoCheck(s, cur, enc) ==
    [n \in DOMAIN cur \cup DOMAIN enc |-> IF n \in DOMAIN enc THEN enc[n] ELSE cur[n]]

\* the loop of compilePrimary's ClosurePrimary case: cp.enclosed (cur) after
\* the names of the closure's capture set (enc) were offered to it
MergeEnclosed(s, cur, enc) ==
    LET add == {m \in DOMAIN enc : ~hasVarOnThisScope(s, m)}
    IN [n \in DOMAIN cur \cup add |-> IF n \in add THEN enc[n] ELSE cur[n]]

----------------------------------------------------------------------------
(* Ops: the values the combine functions build *)

\* parse.NoSigil
NoSigil == ""
\* makeString: the op of a constant string
makeString(t) == [kind |-> "string", text |-> t]
\* combineCompound of the parts of a word
WordOp == [kind |-> "compound"]
combineForm(cmdOp, tlist, ports, cr, p) ==
    [kind |-> "form", cmd |-> cmdOp, args |-> tlist, ports |-> ports, cr |-> cr, pos |-> p]
combinePipeline(ops, p) == [kind |-> "pipeline", forms |-> ops, pos |-> p]
combineChanCapture(op) == [kind |-> "chanCapture", op |-> op]

\* mutant: the pipeline of the sigil is returned without the channel capture
compileCompound_NoCapture(s, op, sigil, p) ==
    IF sigil = NoSigil THEN op
    ELSE combinePipeline(
            <<combineForm(makeString(sigil), op, Nil, resolveCommand(s, sigil), p)>>, p)

\* compileCompound (compile.go:277-286): the op it returns for a word whose
\* parts combine to op
compileCompound(s, op, sigil, p) ==
    IF sigil = NoSigil THEN op
    ELSE combineChanCapture(combinePipeline(
            <<combineForm(makeString(sigil), op, Nil, resolveCommand(s, sigil), p)>>, p))

\* cp.enclosed after compileCompound: resolveCommand runs for a sigil only
CompoundEnclosed(s, enc, sigil) ==
    IF sigil = NoSigil THEN enc ELSE ResolveVarEnclosed(s, enc, FnVar(sigil))

----------------------------------------------------------------------------
(* Redirections and the port table of compileForm *)

\* a parse.Redir: kind "close" (CloseRedir), "fd" (FdRedir) or "file"
\* (FilenameRedir); fvar is the variable the filename word references, ""
\* when the filename is a string literal
Redir(kind, fd, oldFd, fvar, pos) ==
    [kind |-> kind, fd |-> fd, oldFd |-> oldFd, fvar |-> fvar, pos |-> pos]

NoPort == [kind |-> "nil", oldFd |-> 0, fvar |-> ""]

\* compileRedir: the portOp of one redirection
compileRedir(r) ==
    CASE r.kind = "close" -> [kind |-> "close", oldFd |-> 0, fvar |-> ""]
      [] r.kind = "fd" -> [kind |-> "fd", oldFd |-> r.oldFd, fvar |-> ""]
      [] OTHER -> [kind |-> "file", oldFd |-> 0, fvar |-> r.fvar]

\* mutant: the table is sized by the last redirection, not by the largest
\* descriptor
RECURSIVE CountPorts_LastFd(_, _, _)
CountPorts_LastFd(rds, k, nports) ==
    IF k > Len(rds) THEN nports
    ELSE CountPorts_LastFd(rds, k + 1, rds[k].fd + 1)

\* first loop of compileForm (compile.go:199-204)
RECURSIVE CountPorts(_, _, _)
CountPorts(rds, k, nports) ==
    IF k > Len(rds) THEN nports
    ELSE CountPorts(rds, k + 1, IF nports < rds[k].fd + 1 THEN rds[k].fd + 1 ELSE nports)

\* second loop of compileForm (compile.go:206-209); ports[fd] of the code is
\* ports[fd + 1] here
RECURSIVE FillPorts(_, _, _)
FillPorts(rds, k, ports) ==
    IF k > Len(rds) THEN ports
    ELSE FillPorts(rds, k + 1, [ports EXCEPT ![rds[k].fd + 1] = compileRedir(rds[k])])

BuildPorts(rds) == FillPorts(rds, 1, [i \in 1..CountPorts(rds, 1, 0) |-> NoPort])

\* index of the first filename redirection whose variable does not resolve,
\* 0 when there is none
RECURSIVE FirstBadRedir(_, _, _)
FirstBadRedir(s, rds, k) ==
    IF k > Len(rds) THEN 0
    ELSE IF rds[k].kind = "file" /\ rds[k].fvar # "" /\ ResolveVarType(s, rds[k].fvar) = Nil
    THEN k
    ELSE FirstBadRedir(s, rds, k + 1)

\* cp.enclosed after the filename words of rds[k..] were compiled
RECURSIVE RedirsEnclosed(_, _, _, _)
RedirsEnclosed(s, enc, rds, k) ==
    IF k > Len(rds) THEN enc
    ELSE RedirsEnclosed(s,
            IF rds[k].kind = "file" /\ rds[k].fvar # ""
            THEN ResolveVarEnclosed(s, enc, rds[k].fvar) ELSE enc,
            rds, k + 1)

----------------------------------------------------------------------------
(* Run time: the port op of an FdRedir (compile.go:229-235) on an evaluator *)

\* the files and channels a port can hold
Streams == {"s"}
Chans == {"c"}
\* a port: file, channel and the two flags that make close() close them
Ports ==
    [f : Streams \cup {Nil}, ch : Chans \cup {Nil}, closeF : BOOLEAN, closeCh : BOOLEAN]
\* &port{}
ZeroPort == [f |-> Nil, ch |-> Nil, closeF |-> FALSE, closeCh |-> FALSE]
\* the port tables of an evaluator; ev.port(fd) is table[fd + 1]
PortTables == [1..MaxPorts -> Ports]

\* no port op has run: src is the oldFd of the op that ran, -1 before; dup
\* the port it produced; nF and nCh count the closings of the file and of
\* the channel of port src; byDup says that closing dup closed one of them
RtIdle ==
    [ports |-> <<>>, dup |-> ZeroPort, src |-> -1, closedOrig |-> FALSE,
     closedDup |-> FALSE, nF |-> 0, nCh |-> 0, byDup |-> FALSE]

\* mutant: the copy keeps the close flags of the port it was made from
FdRedirPort_KeepFlags(ports, oldFd) == ports[oldFd + 1]

\* the port the op of an FdRedir returns: a copy of *ev.port(oldFd) with
\* both close flags cleared
FdRedirPort(ports, oldFd) ==
    [ports[oldFd + 1] EXCEPT !.closeF = FALSE, !.closeCh = FALSE]

\* port.close: does it close the file, does it close the channel
ClosesFile(p) == p.closeF /\ p.f # Nil
ClosesChan(p) == p.closeCh /\ p.ch # Nil

----------------------------------------------------------------------------
(* Two goroutines on one Compiler.  Each calls Compile once, on one of
   three chunks: an empty chunk, the form e $fn-f (the command e and the
   argument $fn-f), or that form as the body of a closure that is the
   command word of the chunk's one form.  The goroutines share the
   Compiler's ephemeral fields and what the fields refer to.  Nothing
   serializes the calls, and Go promises nothing about them, so the fields
   are kept as the machine words they are made of: a string is a pointer and
   a length, cp.scopes a pointer to a backing array, a length and a capacity,
   cp.enclosed a pointer to a map.  Every word is loaded and stored by
   itself, and nothing fixes the order in which the words of one value are
   loaded or stored, neither for the build nor for the processor.

   A load or a store of a word of cp.scopes, cp.enclosed, cp.name or cp.text
   inside a method is a step, and so are an access to an array element and
   the beginning and the end of a map assignment.  The eight stores of the
   struct assignments of startCompile and stopCompile take effect one by
   one, in any order, each at a moment of its own before the method
   returns.  Between two accesses to a word that moment makes no
   difference, so it is left open until then: pend holds the words whose
   store has not been seen to have taken effect.  A load by the other
   goroutine finds such a store done or not yet done; when the method
   returns, every store has been done, and a word that the other goroutine
   has stored in the meantime (over) holds the value of whichever store was
   the later one.  A word of the Compiler is therefore the set of the values
   that it can hold, each with the goroutine that stored it, and a load
   settles which it is.

   A header put together from the words of two values may point nowhere or
   beyond its array: a nil pointer is a run-time panic, an access outside
   the allocation leaves the process with no defined behaviour, and map
   accesses that overlap end the process or corrupt the map.  A nil frame
   reads as an empty one, and is modelled as one.                          *)

Threads == {1, 2}
Other(t) == 3 - t

\* a string: the data its pointer points to and its length; the nil string
\* is Str("")
Str(s) == [p |-> s, l |-> Len(s)]
\* a nil map reference; a nil pointer to an array is 0 as well
NilMapRef == 0
\* what goroutine t allocates: the backing array and the capture map that
\* startCompile makes (n = 0), the array that pushScope's append makes when
\* it has to grow and the map that compileClosure makes (n = 1)
HeapId(t, n) == t + 2 * n

\* what a Compile call gives its caller: the op (the op of its chunk, with
\* the capture set of its closure, or nil), the error, or a panic instead of
\* both
ThNoErr == [name |-> Str(""), text |-> Str(""), pos |-> -1, msg |-> <<>>]
ThOp(chunk, cap) == [kind |-> chunk, captured |-> cap]
ThResult(op, err) == [op |-> op, err |-> err, panic |-> FALSE]

\* the zero value of compilerEphemeral
ZeroEphemeral ==
    [name |-> Str(""), text |-> Str(""), scopes |-> [arr |-> 0, len |-> 0, cap |-> 0],
     enclosed |-> NilMapRef]

\* the words of compilerEphemeral, numbered in the order of its declaration
\* (pointer and length of name, pointer and length of text, pointer, length
\* and capacity of scopes, enclosed), and the words that one access takes
Words ==
    [all |-> 1..8, name |-> {1, 2}, text |-> {3, 4},
     slice |-> {5, 6, 7}, ptrlen |-> {5, 6}, ptrcap |-> {5, 7}]

\* the word w of the struct c, and c with x as its word w
WordOf(c, w) ==
    CASE w = 1 -> c.name.p
      [] w = 2 -> c.name.l
      [] w = 3 -> c.text.p
      [] w = 4 -> c.text.l
      [] w = 5 -> c.scopes.arr
      [] w = 6 -> c.scopes.len
      [] w = 7 -> c.scopes.cap
      [] w = 8 -> c.enclosed
SetWord(c, w, x) ==
    CASE w = 1 -> [c EXCEPT !.name.p = x]
      [] w = 2 -> [c EXCEPT !.name.l = x]
      [] w = 3 -> [c EXCEPT !.text.p = x]
      [] w = 4 -> [c EXCEPT !.text.l = x]
      [] w = 5 -> [c EXCEPT !.scopes.arr = x]
      [] w = 6 -> [c EXCEPT !.scopes.len = x]
      [] w = 7 -> [c EXCEPT !.scopes.cap = x]
      [] w = 8 -> [c EXCEPT !.enclosed = x]

\* the chunk c ("empty", "form", "closure") that goroutine t compiles: its
\* text (the text of goroutine 2 ends in one more space) and the position
\* of $fn-f in it
Chunk(t, c) ==
    LET s == IF c = "empty" THEN " " ELSE IF c = "form" THEN "e $fn-f" ELSE "{ e $fn-f }"
    IN [text |-> IF t = 1 THEN s ELSE s \o " ", pos |-> IF c = "closure" THEN 5 ELSE 3]

\* a goroutine before its call, with the unit and the scope it will pass.
\* pend and over are the words of its struct assignment in progress; v holds
\* the words the running method has loaded or is about to store, moved is
\* the set of those it has loaded or stored so far; this, i, rv, tv, ref are
\* the method's other locals; cap is compileClosure's local enclosed.  Kept
\* for the properties: overlapped (the other call was in progress during
\* this one), wrong (ResolveVar read a frame of a scope stack that the other
\* call made) and empty (cp.scopes was indexed when its length was 0)
Thread(u, chunk, scope) ==
    [pc |-> "idle", pend |-> {}, over |-> {}, moved |-> {}, unit |-> u, chunk |-> chunk,
     scope |-> scope, v |-> ZeroEphemeral,
     this |-> 0, i |-> 0, rv |-> "", tv |-> Nil,
     ref |-> NilMapRef, cap |-> NilMapRef, out |-> "",
     res |-> ThResult(ThOp("nil", EmptyMap), ThNoErr), overlapped |-> FALSE, wrong |-> FALSE,
     empty |-> FALSE]

\* no goroutine calls Compile: every word of the Compiler holds the zero
\* that NewCompiler (by 0) left in it
ThIdle ==
    LET Zero(x) == {[by |-> 0, val |-> x]}
    IN [g |-> <<>>, proc |-> "running",
        cp |-> [name |-> [p |-> Zero(""), l |-> Zero(0)], text |-> [p |-> Zero(""), l |-> Zero(0)],
                scopes |-> [arr |-> Zero(0), len |-> Zero(0), cap |-> Zero(0)],
                enclosed |-> Zero(NilMapRef)],
        arrays |-> [k \in 1..4 |-> <<>>], maps |-> [k \in 1..4 |-> EmptyMap]]

\* the Compile call of goroutine t has begun and has not returned
InProgress(t) ==
    th.g[t].pc \notin {"idle", "done", "failed", "panicked", "fatal", "corrupt"}

\* the struct value that startCompile stores for goroutine t
NewEphemeral(t) ==
    [name |-> Str(th.g[t].unit[1]), text |-> Str(th.g[t].unit[2]),
     scopes |-> [arr |-> HeapId(t, 0), len |-> 1, cap |-> 1], enclosed |-> HeapId(t, 0)]

\* the struct value whose stores goroutine t has in progress: startCompile's
\* or stopCompile's
InFlight(t) == IF th.g[t].pc = "start" THEN NewEphemeral(t) ELSE ZeroEphemeral

\* the loads of word w by goroutine t: the value x, and the shared state
\* that has the word settled to it.  The store of w that the other
\* goroutine has in progress is not done yet, or it is
Load(t, w) ==
    LET o == Other(t)
        done == [th EXCEPT !.cp = SetWord(@, w, {[by |-> o, val |-> WordOf(InFlight(o), w)]}),
                           !.g[o].pend = @ \ {w},
                           !.g[o].over = @ \ {w}]
    IN UNION {{[x |-> c.val, th |-> [m EXCEPT !.cp = SetWord(@, w, {c})]] : c \in WordOf(m.cp, w)} :
              m \in {th} \cup IF w \in th.g[o].pend THEN {done} ELSE {}}

\* the shared state m after goroutine t has stored x as word w; a store of
\* w that the other goroutine has in progress is before it or after it
Store(m, t, w, x) ==
    [m EXCEPT !.cp = SetWord(@, w, {[by |-> t, val |-> x]}),
              !.g[Other(t)].over = @ \cup ({w} \cap m.g[Other(t)].pend)]

\* the shared state after the method whose struct assignment goroutine t
\* has in progress has returned: all its stores are done.  A word of over
\* has also been stored by the other goroutine since the assignment began:
\* it holds what that goroutine may have left in it, or the value of t
Assigned(t) ==
    LET l == th.g[t]
        Leaf(k) == IF k \notin l.pend THEN WordOf(th.cp, k)
                   ELSE (IF k \in l.over THEN {x \in WordOf(th.cp, k) : x.by # t} ELSE {})
                        \cup {[by |-> t, val |-> WordOf(InFlight(t), k)]}
    IN [th EXCEPT
          !.cp = [name |-> [p |-> Leaf(1), l |-> Leaf(2)], text |-> [p |-> Leaf(3), l |-> Leaf(4)],
                  scopes |-> [arr |-> Leaf(5), len |-> Leaf(6), cap |-> Leaf(7)],
                  enclosed |-> Leaf(8)],
          !.g[Other(t)].over = @ \cup (l.pend \cap th.g[Other(t)].pend)]

\* an access to element i (from 0) of the array at p: through a nil
\* pointer, outside the allocation, or inside it
Slot(ar, p, i) ==
    IF p = 0 THEN "nil" ELSE IF i + 1 > Len(ar[p]) THEN "outside" ELSE "ok"

\* append(h, make(map[string]Type)) (compile.go:68).  Within the capacity
\* the new frame is written into the backing array of h.  Beyond it the
\* len(h) frames are copied into a new array (id) of twice the capacity,
\* or of the length needed when that is more
SliceAppend(ar, h, id) ==
    IF h.len + 1 <= h.cap
    THEN IF Slot(ar, h.arr, h.len) # "ok"
         THEN [kind |-> Slot(ar, h.arr, h.len), arrays |-> ar, h |-> h]
         ELSE [kind |-> "ok",
               arrays |-> [ar EXCEPT ![h.arr][h.len + 1] = EmptyMap],
               h |-> [h EXCEPT !.len = h.len + 1]]
    ELSE IF h.len > 0 /\ h.arr = 0
         THEN [kind |-> "fault", arrays |-> ar, h |-> h]
         ELSE IF h.len > 0 /\ Slot(ar, h.arr, h.len - 1) = "outside"
         THEN [kind |-> "outside", arrays |-> ar, h |-> h]
         ELSE LET c == IF 2 * h.cap >= h.len + 1 THEN 2 * h.cap ELSE h.len + 1
              IN [kind |-> "ok",
                  arrays |-> [ar EXCEPT ![id] =
                                [k \in 1..c |-> IF k <= h.len THEN ar[h.arr][k] ELSE EmptyMap]],
                  h |-> [arr |-> id, len |-> h.len + 1, cap |-> c]]

----------------------------------------------------------------------------
(* The calls in progress.  An entry of ctl is a compileForm call (k = "form",
   with the phase it is in) or a compileClosure call (k = "closure", with the
   index of its frame).  A closure entry also keeps the history of its body
   that the properties below speak about:
     before     what each name resolved to when the closure was entered
     resolved   names that a ResolveVar call in the body found
     free       names that a ResolveVar call in the body (nested closures
                included) found in a frame below the closure's own frame
     resOuter   names that ResolveVar found in an enclosing frame while the
                closure's frame was the innermost one
     everBound  names pushVar bound in the closure's own frame
     boundAll   names pushVar bound in the closure's frame or in the frame
                of a closure nested in it
     boundFirst names bound in the own frame before any resolution of them
                in the body, and never unbound since
     kidFree    the free names of the closures nested directly in it      *)

FormEntry(phase, special) ==
    [k |-> "form", phase |-> phase, special |-> special, asCmd |-> FALSE, frame |-> 0,
     before |-> EmptyMap, resolved |-> {}, free |-> {}, resOuter |-> {},
     everBound |-> {}, boundAll |-> {}, boundFirst |-> {}, kidFree |-> {}]

ClosureEntry(asCmd, frame, before) ==
    [k |-> "closure", phase |-> "body", special |-> FALSE, asCmd |-> asCmd, frame |-> frame,
     before |-> before, resolved |-> {}, free |-> {}, resOuter |-> {},
     everBound |-> {}, boundAll |-> {}, boundFirst |-> {}, kidFree |-> {}]

\* the innermost frame of s where ResolveVar finds n, 0 when it finds none:
\* a frame counts when the type it holds for n is not nil (compile.go:147)
Innermost(s, n) ==
    IF \E i \in 1..Len(s) : MapGet(s[i], n) # Nil
    THEN CHOOSE i \in 1..Len(s) :
            /\ MapGet(s[i], n) # Nil
            /\ \A j \in (i + 1)..Len(s) : MapGet(s[j], n) = Nil
    ELSE 0

\* what every name resolves to on the scope stack s
Visible(s) ==
    [n \in VarNames |-> IF Innermost(s, n) = 0 THEN Nil ELSE s[Innermost(s, n)][n]]

\* the history after a ResolveVar(n) call on the scope stack s
NoteResolve(c, s, n) ==
    LET i == Innermost(s, n)
    IN [j \in DOMAIN c |->
          IF c[j].k = "closure" /\ i # 0
          THEN [c[j] EXCEPT
                  !.resolved = @ \cup {n},
                  !.free = IF i < c[j].frame THEN @ \cup {n} ELSE @,
                  !.resOuter = IF i < c[j].frame /\ c[j].frame = Len(s) THEN @ \cup {n} ELSE @]
          ELSE c[j]]

\* the history after pushVar(n, _) on the scope stack s
NoteBind(c, s, n) ==
    [j \in DOMAIN c |->
       IF c[j].k = "closure"
       THEN [c[j] EXCEPT
               !.boundAll = @ \cup {n},
               !.everBound = IF c[j].frame = Len(s) THEN @ \cup {n} ELSE @,
               !.boundFirst = IF c[j].frame = Len(s) /\ n \notin c[j].resolved
                                 /\ n \notin c[j].everBound
                              THEN @ \cup {n} ELSE @]
       ELSE c[j]]

\* the history after popVar(n) on the scope stack s
NoteUnbind(c, s, n) ==
    [j \in DOMAIN c |->
       IF c[j].k = "closure" /\ c[j].frame = Len(s)
       THEN [c[j] EXCEPT !.boundFirst = @ \ {n}]
       ELSE c[j]]

\* the history after the filename words of rds were compiled
RECURSIVE NoteRedirs(_, _, _, _)
NoteRedirs(c, s, rds, k) ==
    IF k > Len(rds) THEN c
    ELSE NoteRedirs(IF rds[k].kind = "file" /\ rds[k].fvar # ""
                    THEN NoteResolve(c, s, rds[k].fvar) ELSE c,
                    s, rds, k + 1)

Running == status = "running"
Top == ctl[Len(ctl)]
\* compileChunk or the loop of compileClosure is about to compile a pipeline
InChunk == IF ctl = <<>> THEN TRUE ELSE Top.k = "closure"
\* the arguments of a form are being compiled
InArgs == ctl # <<>> /\ Top.k = "form" /\ Top.phase \in {"args", "special"}
\* the redirections of a form come next
AtRedirs == ctl # <<>> /\ Top.k = "form" /\ Top.phase = "redirs"
\* builtinSpecial.compile is running
InSpecial == ctl # <<>> /\ Top.k = "form" /\ Top.phase = "special"
\* a form can start: the next form of the chunk or closure body
CanBeginForm == Running /\ InChunk

\* replace the innermost entry of c
SetTop(c, e) == [c EXCEPT ![Len(c)] = e]

----------------------------------------------------------------------------
(* Compile, startCompile, stopCompile, errorf *)

InitCompile ==
    /\ status = "idle"
    /\ name = ""
    /\ text = ""
    /\ scopes = <<>>
    /\ enclosed = EmptyMap
    /\ callerMap = EmptyMap
    /\ call = [name |-> "", text |-> "", scope |-> EmptyMap]
    /\ ctl = <<>>
    /\ ev = NoEv
    /\ result = [op |-> NoOp, err |-> NoErr]

\* a new Compiler; no port op is run
Init == InitCompile /\ rt = RtIdle /\ th = ThIdle

\* startCompile: frame 0 is the caller's map itself, not a copy of it
startCompile(n, t, scope) ==
    /\ name' = n
    /\ text' = t
    /\ scopes' = <<scope>>
    /\ enclosed' = EmptyMap

\* mutant: the capture set survives the call
stopCompile_KeepCaptures ==
    /\ name' = ""
    /\ text' = ""
    /\ scopes' = <<>>
    /\ UNCHANGED enclosed

\* stopCompile: the ephemeral part is reset to its zero value
stopCompile ==
    /\ name' = ""
    /\ text' = ""
    /\ scopes' = <<>>
    /\ enclosed' = EmptyMap

\* util.NewContextualError
NewContextualError(n, t, p, msg) == [name |-> n, text |-> t, pos |-> p, msg |-> msg]

\* util.Panic unwinds to the deferred calls of Compile: util.Recover stores
\* the error in err, op keeps its zero value, stopCompile runs
Unwind(e) ==
    /\ status' = "failed"
    /\ result' = [op |-> NoOp, err |-> e]
    /\ ctl' = <<>>
    /\ stopCompile
    /\ UNCHANGED <<callerMap, call>>

\* mutant: the error is built but not raised, the traversal goes on
errorf_NoPanic(p, msg) ==
    UNCHANGED <<status, name, text, scopes, enclosed, callerMap, call, ctl, result>>

errorf(p, msg) == Unwind(NewContextualError(name, text, p, msg))

\* panic(v) with a value that is no error of util.Panic: util.Recover does
\* not keep it, the deferred stopCompile runs, and the panic leaves Compile,
\* which returns nothing
GoPanic ==
    /\ status' = "panicked"
    /\ ctl' = <<>>
    /\ stopCompile
    /\ UNCHANGED <<result, callerMap, call>>

\* Compile is called with a map the caller has just built
CompileFresh(u, scope) ==
    /\ status # "running"
    /\ startCompile(u[1], u[2], scope)
    /\ callerMap' = scope
    /\ call' = [name |-> u[1], text |-> u[2], scope |-> scope]
    /\ status' = "running"
    /\ ctl' = <<>>
    /\ ev' = [op |-> "startCompile", same |-> FALSE]
    /\ result' = [op |-> NoOp, err |-> NoErr]
    /\ UNCHANGED <<rt, th>>

\* Compile is called again with the map object of the call before, which
\* the caller has not touched since it built it
CompileSameMap(u) ==
    /\ status \in {"done", "failed"}
    /\ startCompile(u[1], u[2], callerMap)
    /\ call' = [call EXCEPT !.name = u[1], !.text = u[2]]
    /\ status' = "running"
    /\ ctl' = <<>>
    /\ ev' = [op |-> "startCompile", same |-> TRUE]
    /\ result' = [op |-> NoOp, err |-> NoErr]
    /\ UNCHANGED callerMap
    /\ UNCHANGED <<rt, th>>

\* compileChunk returns: Compile returns (op, nil) and stopCompile runs
CompileReturn ==
    /\ Running
    /\ ctl = <<>>
    /\ status' = "done"
    /\ result' = [op |-> "op", err |-> NoErr]
    /\ ev' = [op |-> "combineChunk"]
    /\ stopCompile
    /\ UNCHANGED <<ctl, callerMap, call>>
    /\ UNCHANGED <<rt, th>>

----------------------------------------------------------------------------
(* compileForm *)

CommandMsg == <<"command must be a string or closure">>
UndefinedMsg(n) == <<"undefined variable $", n>>

\* shapes of a command word that is no single string or closure primary:
\* no part or several parts, a part with a subscript, or one primary of
\* another type (its own parts empty)
BadShapes == {"empty", "multi", "subscript", "variable", "table", "list",
              "chancapture", "statuscapture"}

\* mustResolveVar
mustResolveVar(n, p) ==
    IF ResolveVarType(scopes, n) # Nil
    THEN /\ enclosed' = ResolveVarEnclosed(scopes, enclosed, n)
         /\ ctl' = NoteResolve(ctl, scopes, n)
         /\ UNCHANGED <<status, name, text, scopes, callerMap, call, result>>
    ELSE errorf(p, UndefinedMsg(n))

\* makeVar (called at compile.go:307 with the compiler, the name and the
\* position): resolves the name with mustResolveVar
makeVar(n, p) == mustResolveVar(n, p)

\* what ev says of a variable reference: the position only when it matters
VariableEv(n, p) ==
    IF Innermost(scopes, n) # 0
    THEN [op |-> "variable", name |-> n, found |-> TRUE]
    ELSE [op |-> "variable", name |-> n, found |-> FALSE, pos |-> p]

\* compileForm, command word a string literal: resolveCommand
CompileFormString(c) ==
    /\ CanBeginForm
    /\ LET cr == resolveCommand(scopes, c)
       IN /\ enclosed' = ResolveVarEnclosed(scopes, enclosed, FnVar(c))
          /\ ctl' = Append(NoteResolve(ctl, scopes, FnVar(c)),
                           FormEntry("redirs", cr.commandType = commandBuiltinSpecial))
          /\ ev' = [op |-> "resolveCommand", name |-> c, cr |-> cr, sigil |-> FALSE]
    /\ UNCHANGED <<status, name, text, scopes, callerMap, call, result>>
    /\ UNCHANGED <<rt, th>>

\* compileForm, command word a closure literal: compilePrimary enters
\* compileClosure, which pushes the closure's frame
CompileFormClosure ==
    /\ CanBeginForm
    /\ Len(scopes) < MaxScopes
    /\ scopes' = pushScope(scopes)
    /\ ctl' = ctl \o <<FormEntry("cmdword", FALSE),
                       ClosureEntry(TRUE, Len(scopes) + 1, Visible(scopes))>>
    /\ ev' = [op |-> "pushScope"]
    /\ UNCHANGED <<status, name, text, enclosed, callerMap, call, result>>
    /\ UNCHANGED <<rt, th>>

\* mutant: the type of the command word is checked before it is compiled
CompileFormBad_CheckFirst(shape, n, p) ==
    /\ CanBeginForm
    /\ ev' = [op |-> "command", shape |-> shape, name |-> n, pos |-> p,
              found |-> Innermost(scopes, n) # 0]
    /\ errorf(p, CommandMsg)
    /\ UNCHANGED <<rt, th>>

\* compileForm, any other command word: the check at compile.go:183, then
\* compilePrimary (compile.go:187), then the check at compile.go:196.  The
\* word is at position p, and so is its primary when it has one
CompileFormBad(shape, n, p) ==
    /\ CanBeginForm
    /\ ev' = [op |-> "command", shape |-> shape, name |-> n, pos |-> p,
              found |-> Innermost(scopes, n) # 0]
    /\ IF shape = "variable" /\ ResolveVarType(scopes, n) = Nil
       THEN makeVar(n, p)
       ELSE errorf(p, CommandMsg)
    /\ UNCHANGED <<rt, th>>

\* the redirections of rds whose filename is a variable no frame binds
UnboundRedirs(rds) ==
    {k \in DOMAIN rds : rds[k].kind = "file" /\ rds[k].fvar # ""
                          /\ Innermost(scopes, rds[k].fvar) = 0}

\* mutant: the arguments always go through compileSpaced
ArgPath_Generic(special) == "args"

\* compile.go:211-216: the special form's compile function when the command
\* resolved to a builtin special form, compileSpaced otherwise
ArgPath(special) == IF special THEN "special" ELSE "args"

\* compileForm, the redirections: the port table
CompileRedirs(rds) ==
    /\ Running
    /\ AtRedirs
    /\ LET bad == FirstBadRedir(scopes, rds, 1)
       IN IF bad # 0
          THEN /\ ev' = [op |-> "redirs", redirs |-> rds, unbound |-> UnboundRedirs(rds)]
               /\ errorf(rds[bad].pos, UndefinedMsg(rds[bad].fvar))
          ELSE /\ enclosed' = RedirsEnclosed(scopes, enclosed, rds, 1)
               /\ ctl' = LET c == NoteRedirs(ctl, scopes, rds, 1)
                         IN SetTop(c, [c[Len(c)] EXCEPT
                                !.phase = ArgPath(c[Len(c)].special)])
               /\ ev' = [op |-> "redirs", redirs |-> rds, unbound |-> UnboundRedirs(rds),
                         ports |-> BuildPorts(rds)]
               /\ UNCHANGED <<status, name, text, scopes, callerMap, call, result>>
    /\ UNCHANGED <<rt, th>>

\* mutant: a redirection of unknown variant is reported as a user error
CompileBadRedir_Errorf(rds) ==
    /\ Running
    /\ AtRedirs
    /\ FirstBadRedir(scopes, rds, 1) = 0
    /\ ev' = [op |-> "panic", what |-> "bad Redir type", depth |-> Len(scopes)]
    /\ errorf(0, <<"bad Redir type">>)
    /\ UNCHANGED <<rt, th>>

\* compileForm, the redirections rds and then one of a variant compileRedir
\* does not know (compile.go:251-252): panic
CompileBadRedir(rds) ==
    /\ Running
    /\ AtRedirs
    /\ FirstBadRedir(scopes, rds, 1) = 0
    /\ ev' = [op |-> "panic", what |-> "bad Redir type", depth |-> Len(scopes)]
    /\ GoPanic
    /\ UNCHANGED <<rt, th>>

\* compileForm returns (combineForm)
CompileFormReturn ==
    /\ Running
    /\ InArgs
    /\ ctl' = SubSeq(ctl, 1, Len(ctl) - 1)
    /\ ev' = [op |-> "combineForm"]
    /\ UNCHANGED <<status, name, text, scopes, enclosed, callerMap, call, result>>
    /\ UNCHANGED <<rt, th>>

----------------------------------------------------------------------------
(* Arguments: compileSpaced, compileCompound, compilePrimary *)

\* compilePrimary, VariablePrimary: makeVar resolves the name
CompileVariable(n, p) ==
    /\ Running
    /\ InArgs
    /\ ev' = VariableEv(n, p)
    /\ makeVar(n, p)
    /\ UNCHANGED <<rt, th>>

\* compilePrimary of a primary whose type it does not know
\* (compile.go:334-335), as the command word (compile.go:187) or in an
\* argument: panic
CompileBadPrimary ==
    /\ Running
    /\ InChunk \/ InArgs
    /\ ev' = [op |-> "panic", what |-> "bad PrimaryNode type", depth |-> Len(scopes)]
    /\ GoPanic
    /\ UNCHANGED <<rt, th>>

\* compilePrimary, ClosurePrimary in an argument: compileClosure pushes the frame
CompileClosureEnter ==
    /\ Running
    /\ InArgs
    /\ Len(scopes) < MaxScopes
    /\ scopes' = pushScope(scopes)
    /\ ctl' = Append(ctl, ClosureEntry(FALSE, Len(scopes) + 1, Visible(scopes)))
    /\ ev' = [op |-> "pushScope"]
    /\ UNCHANGED <<status, name, text, enclosed, callerMap, call, result>>
    /\ UNCHANGED <<rt, th>>

\* compileCompound of a word with a sigil: resolveCommand(sigil)
CompileSigil(c) ==
    /\ Running
    /\ InArgs
    /\ enclosed' = CompoundEnclosed(scopes, enclosed, c)
    /\ ctl' = NoteResolve(ctl, scopes, FnVar(c))
    /\ ev' = [op |-> "resolveCommand", name |-> c, cr |-> resolveCommand(scopes, c),
              sigil |-> TRUE, ret |-> compileCompound(scopes, WordOp, c, 0)]
    /\ UNCHANGED <<status, name, text, scopes, callerMap, call, result>>
    /\ UNCHANGED <<rt, th>>

\* compileCompound of a word without sigil whose parts are string literals
CompileWord ==
    /\ Running
    /\ InArgs
    /\ enclosed' = CompoundEnclosed(scopes, enclosed, NoSigil)
    /\ ev' = [op |-> "compound", ret |-> compileCompound(scopes, WordOp, NoSigil, 0)]
    /\ UNCHANGED <<status, name, text, scopes, callerMap, call, ctl, result>>
    /\ UNCHANGED <<rt, th>>

\* the capture set compileClosure returns (compile.go:113, :117)
ClosureCaptures == enclosed

\* cp.enclosed as compileClosure leaves it (compile.go:114)
ClosureReset == EmptyMap

\* compileClosure returns (compile.go:113-117) and compilePrimary offers the
\* capture set to the enclosing unit (compile.go:320-324); when the closure
\* is the command word, compileForm goes on with commandClosure
CompileClosureReturn ==
    /\ Running
    /\ ctl # <<>> /\ Top.k = "closure"
    /\ LET me == Top
           enc == ClosureCaptures
           s == popScope(scopes)
           rest == SubSeq(ctl, 1, Len(ctl) - 1)
           up == [j \in DOMAIN rest |->
                    IF j = Len(rest) /\ rest[j].k = "form" /\ me.asCmd
                    THEN [rest[j] EXCEPT !.phase = "redirs"]
                    ELSE IF rest[j].k = "closure" /\ rest[j].frame = me.frame - 1
                    THEN [rest[j] EXCEPT !.kidFree = @ \cup me.free]
                    ELSE rest[j]]
       IN /\ scopes' = s
          /\ enclosed' = MergeEnclosed(s, ClosureReset, enc)
          /\ ctl' = up
          /\ ev' = [op |-> "compileClosure", captured |-> enc, frame |-> me.frame,
                    popped |-> scopes[Len(scopes)],
                    asCmd |-> me.asCmd, before |-> me.before, resolved |-> me.resolved,
                    free |-> me.free, resOuter |-> me.resOuter,
                    everBound |-> me.everBound, boundAll |-> me.boundAll,
                    boundFirst |-> me.boundFirst, kidFree |-> me.kidFree,
                    commandType |-> IF me.asCmd THEN commandClosure ELSE Nil]
    /\ UNCHANGED <<status, name, text, callerMap, call, result>>
    /\ UNCHANGED <<rt, th>>

----------------------------------------------------------------------------
(* What builtinSpecial.compile (compile.go:213) does with the compiler *)

SpecialPushVar(n, t) ==
    /\ Running
    /\ InSpecial
    /\ scopes' = pushVar(scopes, n, t)
    /\ callerMap' = IF Len(scopes) = 1 THEN scopes'[1] ELSE callerMap
    /\ ctl' = NoteBind(ctl, scopes, n)
    /\ ev' = [op |-> "pushVar"]
    /\ UNCHANGED <<status, name, text, enclosed, call, result>>
    /\ UNCHANGED <<rt, th>>

SpecialPopVar(n) ==
    /\ Running
    /\ InSpecial
    /\ scopes' = popVar(scopes, n)
    /\ callerMap' = IF Len(scopes) = 1 THEN scopes'[1] ELSE callerMap
    /\ ctl' = NoteUnbind(ctl, scopes, n)
    /\ ev' = [op |-> "popVar"]
    /\ UNCHANGED <<status, name, text, enclosed, call, result>>
    /\ UNCHANGED <<rt, th>>

SpecialResolveVar(n) ==
    /\ Running
    /\ InSpecial
    /\ enclosed' = ResolveVarEnclosed(scopes, enclosed, n)
    /\ ctl' = NoteResolve(ctl, scopes, n)
    /\ ev' = [op |-> "ResolveVar", name |-> n, type |-> ResolveVarType(scopes, n)]
    /\ UNCHANGED <<status, name, text, scopes, callerMap, call, result>>
    /\ UNCHANGED <<rt, th>>

----------------------------------------------------------------------------
(* Running the port op of an FdRedir, closing ports *)

CompilerIdle ==
    UNCHANGED <<status, name, text, scopes, enclosed, callerMap, call, ctl, ev, result, th>>

\* the evaluator runs the op compileRedir made of the FdRedir r
RunFdRedir(r) ==
    /\ rt.ports # <<>>
    /\ rt.src = -1
    /\ LET op == compileRedir(r)
       IN /\ op.kind = "fd"
          /\ op.oldFd + 1 \in DOMAIN rt.ports
          /\ rt' = [rt EXCEPT !.dup = FdRedirPort(rt.ports, op.oldFd), !.src = op.oldFd]
    /\ CompilerIdle

\* close() on the evaluator's port oldFd
CloseOriginal ==
    /\ rt.src >= 0
    /\ ~rt.closedOrig
    /\ LET p == rt.ports[rt.src + 1]
       IN rt' = [rt EXCEPT !.closedOrig = TRUE,
                           !.nF = IF ClosesFile(p) THEN @ + 1 ELSE @,
                           !.nCh = IF ClosesChan(p) THEN @ + 1 ELSE @]
    /\ CompilerIdle

\* close() on the port the op produced
CloseDuplicate ==
    /\ rt.src >= 0
    /\ ~rt.closedDup
    /\ LET p == rt.dup
       IN rt' = [rt EXCEPT !.closedDup = TRUE,
                           !.nF = IF ClosesFile(p) THEN @ + 1 ELSE @,
                           !.nCh = IF ClosesChan(p) THEN @ + 1 ELSE @,
                           !.byDup = ClosesFile(p) \/ ClosesChan(p)]
    /\ CompilerIdle

----------------------------------------------------------------------------
(* The steps of a goroutine's Compile call *)

SequentialIdle ==
    UNCHANGED <<status, name, text, scopes, enclosed, callerMap, call, ctl, ev, result, rt>>

\* mutant: Compile holds a lock of the Compiler from its first step to its
\* return
At_Locked(t, pc) ==
    th.proc = "running" /\ th.g[t].pc = pc /\ (InProgress(t) \/ ~InProgress(Other(t)))

\* goroutine t is at pc and takes its step: Compile (compile.go:60-65), the
\* methods it calls and the Compiler have no lock, so that it can whenever
\* the process runs, whatever the other goroutine is doing
At(t, pc) == th.proc = "running" /\ th.g[t].pc = pc

\* the method of goroutine l has returned: its locals are dead
Cleared(l) ==
    [l EXCEPT !.moved = {}, !.v = ZeroEphemeral, !.this = 0, !.i = 0, !.rv = "", !.tv = Nil,
              !.ref = NilMapRef]

\* Compile of goroutine l returns res: its deferred stopCompile
\* (compile.go:55) is next, none of whose stores has been seen yet
Deferred(l, out, res) ==
    [Cleared(l) EXCEPT !.pc = "stop", !.pend = Words.all, !.over = {}, !.out = out,
                       !.res = res, !.cap = NilMapRef]

\* a run-time panic in goroutine l: util.Recover panics again, the deferred
\* stopCompile runs, Compile returns nothing
ThPanic(l) ==
    Deferred(l, "panicked", [op |-> ThOp("nil", EmptyMap), err |-> ThNoErr, panic |-> TRUE])

\* the process has ended (how = "fatal": the run time has thrown), or it has
\* no defined behaviour any more (how = "corrupt"); no Compile call returns
Dead(how) ==
    [ThIdle EXCEPT
       !.proc = how,
       !.g = [t \in Threads |->
                [Thread(th.g[t].unit, th.g[t].chunk, th.g[t].scope) EXCEPT
                   !.pc = how, !.overlapped = TRUE]]]

\* goroutine t is inside an assignment to the map m
Writing(t, m) == th.g[t].pc \in {"rv_encend", "m_encend"} /\ th.g[t].ref = m

\* ResolveVar returns tv to its caller: resolveCommand goes on to the
\* argument, mustResolveVar reports a nil type, the form ends and with it
\* the closure body or the chunk
ThResolved(l, tv) ==
    IF l.rv = "fn-e" THEN [Cleared(l) EXCEPT !.pc = "rv_len", !.rv = "fn-f"]
    ELSE IF tv = Nil THEN [Cleared(l) EXCEPT !.pc = "ef_name"]
    ELSE IF l.chunk = "closure" THEN [Cleared(l) EXCEPT !.pc = "c113"]
    ELSE [Cleared(l) EXCEPT !.pc = "ret"]

\* goroutine t goes on as l in the shared state m
ThLocal(m, t, l) == th' = [m EXCEPT !.g[t] = l]

\* goroutine t loads one more word of the words ws of the Compiler's
\* fields, and goes on at pc when that was the last one
ThLoad(t, ws, pc) ==
    \E w \in ws \ th.g[t].moved :
       \E r \in Load(t, w) :
          LET l == [th.g[t] EXCEPT !.v = SetWord(@, w, r.x)]
          IN ThLocal(r.th, t, IF l.moved \cup {w} = ws THEN [l EXCEPT !.moved = {}, !.pc = pc]
                              ELSE [l EXCEPT !.moved = @ \cup {w}])

\* goroutine t stores one more word of its v as a word of cp.scopes, and
\* goes on as l when that was the last one
ThStore(t, l) ==
    \E w \in Words.slice \ th.g[t].moved :
       ThLocal(Store(th, t, w, WordOf(th.g[t].v, w)), t,
               IF th.g[t].moved \cup {w} = Words.slice THEN l
               ELSE [th.g[t] EXCEPT !.moved = @ \cup {w}])

\* startCompile (compile.go:49-51): the new struct value is made, with a new
\* slice that holds the caller's map and a new capture map; its stores begin
ThStartCompile(t) ==
    /\ At(t, "idle")
    /\ th' = [th EXCEPT
                !.g = [j \in Threads |->
                         [th.g[j] EXCEPT
                            !.pc = IF j = t THEN "start" ELSE @,
                            !.pend = IF j = t THEN Words.all ELSE @,
                            !.overlapped = @ \/ InProgress(Other(t))]],
                !.arrays[HeapId(t, 0)] = <<th.g[t].scope>>,
                !.maps[HeapId(t, 0)] = EmptyMap]
    /\ SequentialIdle

\* startCompile returns: its stores are done.  Compile then goes down to the
\* first form of the chunk, to the closure of its command word or to the
\* resolution of its command e
ThStartReturn(t) ==
    /\ At(t, "start")
    /\ LET l == th.g[t]
       IN ThLocal(Assigned(t), t,
                  [l EXCEPT !.pend = {}, !.over = {},
                            !.pc = IF l.chunk = "closure" THEN "push_load"
                                   ELSE IF l.chunk = "form" THEN "rv_len" ELSE "ret",
                            !.rv = IF l.chunk = "form" THEN "fn-e" ELSE ""])
    /\ SequentialIdle

\* pushScope (compile.go:68): the words of cp.scopes are loaded
ThPushLoad(t) ==
    /\ At(t, "push_load")
    /\ ThLoad(t, Words.slice, "push_append")
    /\ SequentialIdle

\* pushScope: append.  A fault of the copy inside the run time is a panic
\* or the end of the process
ThPushAppend(t) ==
    /\ At(t, "push_append")
    /\ LET l == th.g[t]
           a == SliceAppend(th.arrays, l.v.scopes, HeapId(t, 1))
       IN CASE a.kind = "ok" ->
                 th' = [th EXCEPT !.arrays = a.arrays, !.g[t].v.scopes = a.h,
                                  !.g[t].pc = "push_store"]
            [] a.kind = "nil" -> ThLocal(th, t, ThPanic(l))
            [] a.kind = "fault" -> \/ ThLocal(th, t, ThPanic(l))
                                   \/ th' = Dead("fatal")
            [] a.kind = "outside" -> th' = Dead("corrupt")
    /\ SequentialIdle

\* pushScope: the words of cp.scopes are stored; the body's form then
\* resolves its command e
ThPushStore(t) ==
    /\ At(t, "push_store")
    /\ ThStore(t, [Cleared(th.g[t]) EXCEPT !.pc = "rv_len", !.rv = "fn-e"])
    /\ SequentialIdle

\* ResolveVar (compile.go:145): thisScope := len(cp.scopes) - 1
ThResolveLen(t) ==
    /\ At(t, "rv_len")
    /\ \E r \in Load(t, 6) :
          LET n == r.x - 1
              l == th.g[t]
          IN ThLocal(r.th, t, IF n < 0 THEN ThResolved(l, Nil)
                              ELSE [l EXCEPT !.this = n, !.i = n, !.pc = "rv_hdr"])
    /\ SequentialIdle

\* ResolveVar (compile.go:147): the pointer and the length of cp.scopes are
\* loaded for cp.scopes[i]
ThResolveSlice(t) ==
    /\ At(t, "rv_hdr")
    /\ ThLoad(t, Words.ptrlen, "rv_elem")
    /\ SequentialIdle

\* ResolveVar (compile.go:146-148, 153-154): i is checked against the
\* length, a run-time panic when the stack has got shorter; frame i is read
\* and looked up, and a type that is not nil ends the search
ThResolveFrame(t) ==
    /\ At(t, "rv_elem")
    /\ LET h == th.g[t].v.scopes
           l == [th.g[t] EXCEPT
                   !.empty = @ \/ h.len = 0,
                   !.wrong = @ \/ (th.g[t].i < h.len /\ Slot(th.arrays, h.arr, th.g[t].i) = "ok"
                                     /\ h.arr \in {HeapId(Other(t), 0), HeapId(Other(t), 1)})]
           ty == MapGet(th.arrays[h.arr][l.i + 1], l.rv)
       IN IF l.i >= h.len \/ Slot(th.arrays, h.arr, l.i) = "nil"
          THEN ThLocal(th, t, ThPanic(l))
          ELSE IF Slot(th.arrays, h.arr, l.i) = "outside"
          THEN th' = Dead("corrupt")
          ELSE ThLocal(th, t, IF ty # Nil
                              THEN IF l.i < l.this
                                   THEN [l EXCEPT !.tv = ty, !.v = ZeroEphemeral,
                                                  !.pc = "rv_encload"]
                                   ELSE ThResolved(l, ty)
                              ELSE IF l.i = 0 THEN ThResolved(l, Nil)
                                   ELSE [l EXCEPT !.i = l.i - 1, !.v = ZeroEphemeral,
                                                  !.pc = "rv_hdr"])
    /\ SequentialIdle

\* ResolveVar (compile.go:149): cp.enclosed is loaded
ThResolveEnclosedLoad(t) ==
    /\ At(t, "rv_encload")
    /\ \E r \in Load(t, 8) :
          ThLocal(r.th, t, [th.g[t] EXCEPT !.ref = r.x, !.pc = "rv_encwrite"])
    /\ SequentialIdle

\* ResolveVar (compile.go:149): the assignment to the map begins, a run-time
\* panic when the map is nil; when the other goroutine is inside an
\* assignment to the same map the run time ends the process, or the map is
\* corrupted
ThResolveEnclosedBegin(t) ==
    /\ At(t, "rv_encwrite")
    /\ LET l == th.g[t]
       IN IF l.ref = NilMapRef THEN ThLocal(th, t, ThPanic(l))
          ELSE IF Writing(Other(t), l.ref)
          THEN \E how \in {"fatal", "corrupt"} : th' = Dead(how)
          ELSE ThLocal(th, t, [l EXCEPT !.pc = "rv_encend"])
    /\ SequentialIdle

\* ResolveVar (compile.go:149): the entry is assigned
ThResolveEnclosedStore(t) ==
    /\ At(t, "rv_encend")
    /\ LET l == th.g[t]
       IN th' = [th EXCEPT !.maps[l.ref] = MapPut(@, l.rv, l.tv),
                           !.g[t] = ThResolved(l, l.tv)]
    /\ SequentialIdle

\* mustResolveVar, errorf (compile.go:136, 90): the words of cp.name are loaded
ThErrorfName(t) ==
    /\ At(t, "ef_name")
    /\ ThLoad(t, Words.name, "ef_text")
    /\ SequentialIdle

\* errorf: the words of cp.text are loaded and util.Panic unwinds to
\* Compile, whose util.Recover stores the error
ThErrorfText(t) ==
    /\ At(t, "ef_text")
    /\ \E w \in Words.text \ th.g[t].moved :
       \E r \in Load(t, w) :
          LET l == th.g[t]
              v == SetWord(l.v, w, r.x)
          IN ThLocal(r.th, t,
                     IF l.moved \cup {w} # Words.text
                     THEN [l EXCEPT !.v = v, !.moved = @ \cup {w}]
                     ELSE Deferred(l, "failed",
                                   ThResult(ThOp("nil", EmptyMap),
                                            NewContextualError(v.name, v.text, Chunk(1, l.chunk).pos,
                                                               UndefinedMsg("fn-f")))))
    /\ SequentialIdle

\* compileClosure (compile.go:113): enclosed := cp.enclosed
ThClosureLoad(t) ==
    /\ At(t, "c113")
    /\ \E r \in Load(t, 8) :
          ThLocal(r.th, t, [th.g[t] EXCEPT !.cap = r.x, !.pc = "c114"])
    /\ SequentialIdle

\* compileClosure (compile.go:114): cp.enclosed = make(map[string]Type)
ThClosureMake(t) ==
    /\ At(t, "c114")
    /\ th' = [Store(th, t, 8, HeapId(t, 1)) EXCEPT
                !.maps[HeapId(t, 1)] = EmptyMap,
                !.g[t].pc = "p72_slice"]
    /\ SequentialIdle

\* popScope (compile.go:72): the pointer and the length of cp.scopes are loaded
ThPopSlice(t) ==
    /\ At(t, "p72_slice")
    /\ ThLoad(t, Words.ptrlen, "p72_len")
    /\ SequentialIdle

\* popScope (compile.go:72): the index len(cp.scopes)-1 is computed and
\* checked, a run-time panic when it is outside the slice
ThPopIndex(t) ==
    /\ At(t, "p72_len")
    /\ \E r \in Load(t, 6) :
          LET l == [th.g[t] EXCEPT !.empty = @ \/ r.x = 0]
              n == r.x - 1
          IN ThLocal(r.th, t, IF n < 0 \/ n >= l.v.scopes.len THEN ThPanic(l)
                              ELSE [l EXCEPT !.i = n, !.pc = "p72_nil"])
    /\ SequentialIdle

\* popScope (compile.go:72): the element is set to nil
ThPopNil(t) ==
    /\ At(t, "p72_nil")
    /\ LET l == th.g[t]
           h == l.v.scopes
       IN CASE Slot(th.arrays, h.arr, l.i) = "nil" -> ThLocal(th, t, ThPanic(l))
            [] Slot(th.arrays, h.arr, l.i) = "outside" -> th' = Dead("corrupt")
            [] Slot(th.arrays, h.arr, l.i) = "ok" ->
                 th' = [th EXCEPT !.arrays[h.arr][l.i + 1] = EmptyMap,
                                  !.g[t] = [Cleared(l) EXCEPT !.pc = "p73_slice"]]
    /\ SequentialIdle

\* popScope (compile.go:73): the pointer and the capacity of cp.scopes are loaded
ThPopSlice2(t) ==
    /\ At(t, "p73_slice")
    /\ ThLoad(t, Words.ptrcap, "p73_len")
    /\ SequentialIdle

\* popScope (compile.go:73): cp.scopes[:len(cp.scopes)-1], a run-time panic
\* when the bound is negative or beyond the capacity
ThPopReslice(t) ==
    /\ At(t, "p73_len")
    /\ \E r \in Load(t, 6) :
          LET l == th.g[t]
              n == r.x - 1
          IN ThLocal(r.th, t, IF n < 0 \/ n > l.v.scopes.cap THEN ThPanic(l)
                              ELSE [l EXCEPT !.v.scopes.len = n, !.pc = "p73_store"])
    /\ SequentialIdle

\* popScope (compile.go:73): the words of cp.scopes are stored;
\* compileClosure returns
ThPopStore(t) ==
    /\ At(t, "p73_store")
    /\ ThStore(t, [Cleared(th.g[t]) EXCEPT !.pc = "m_range"])
    /\ SequentialIdle

\* compilePrimary (compile.go:320): range over the closure's capture set
\* reads its first entry; when the other goroutine is inside an assignment
\* to that map the run time ends the process, or the read has no defined
\* result
ThMergeRange(t) ==
    /\ At(t, "m_range")
    /\ LET l == th.g[t]
           m == IF l.cap = NilMapRef THEN EmptyMap ELSE th.maps[l.cap]
       IN IF l.cap # NilMapRef /\ Writing(Other(t), l.cap)
          THEN \E how \in {"fatal", "corrupt"} : th' = Dead(how)
          ELSE ThLocal(th, t, IF "fn-f" \in DOMAIN m
                              THEN [l EXCEPT !.rv = "fn-f", !.tv = m["fn-f"], !.pc = "m_slice"]
                              ELSE [l EXCEPT !.pc = "ret"])
    /\ SequentialIdle

\* hasVarOnThisScope (compile.go:85): the pointer and the length of
\* cp.scopes are loaded
ThHasVarSlice(t) ==
    /\ At(t, "m_slice")
    /\ ThLoad(t, Words.ptrlen, "m_len")
    /\ SequentialIdle

\* hasVarOnThisScope (compile.go:85): the index len(cp.scopes)-1 is computed
\* and checked, a run-time panic when it is outside the slice
ThHasVarIndex(t) ==
    /\ At(t, "m_len")
    /\ \E r \in Load(t, 6) :
          LET l == [th.g[t] EXCEPT !.empty = @ \/ r.x = 0]
              n == r.x - 1
          IN ThLocal(r.th, t, IF n < 0 \/ n >= l.v.scopes.len THEN ThPanic(l)
                              ELSE [l EXCEPT !.i = n, !.pc = "m_elem"])
    /\ SequentialIdle

\* hasVarOnThisScope (compile.go:85-86) and compilePrimary (compile.go:321):
\* the frame is read; a name it has is not merged
ThHasVarFrame(t) ==
    /\ At(t, "m_elem")
    /\ LET l == th.g[t]
           h == l.v.scopes
       IN CASE Slot(th.arrays, h.arr, l.i) = "nil" -> ThLocal(th, t, ThPanic(l))
            [] Slot(th.arrays, h.arr, l.i) = "outside" -> th' = Dead("corrupt")
            [] Slot(th.arrays, h.arr, l.i) = "ok" ->
                 ThLocal(th, t, IF l.rv \in DOMAIN th.arrays[h.arr][l.i + 1]
                                THEN [l EXCEPT !.v = ZeroEphemeral, !.i = 0, !.pc = "m_next"]
                                ELSE [l EXCEPT !.v = ZeroEphemeral, !.i = 0, !.pc = "m_encload"])
    /\ SequentialIdle

\* compilePrimary (compile.go:322): cp.enclosed is loaded
ThMergeEnclosedLoad(t) ==
    /\ At(t, "m_encload")
    /\ \E r \in Load(t, 8) :
          ThLocal(r.th, t, [th.g[t] EXCEPT !.ref = r.x, !.pc = "m_encwrite"])
    /\ SequentialIdle

\* compilePrimary (compile.go:322): the assignment to the map begins, a
\* run-time panic when the map is nil; when the other goroutine is inside
\* an assignment to the same map the run time ends the process, or the map
\* is corrupted
ThMergeEnclosedBegin(t) ==
    /\ At(t, "m_encwrite")
    /\ LET l == th.g[t]
       IN IF l.ref = NilMapRef THEN ThLocal(th, t, ThPanic(l))
          ELSE IF Writing(Other(t), l.ref)
          THEN \E how \in {"fatal", "corrupt"} : th' = Dead(how)
          ELSE ThLocal(th, t, [l EXCEPT !.pc = "m_encend"])
    /\ SequentialIdle

\* compilePrimary (compile.go:322): the entry is assigned
ThMergeEnclosedStore(t) ==
    /\ At(t, "m_encend")
    /\ LET l == th.g[t]
       IN th' = [th EXCEPT !.maps[l.ref] = MapPut(@, l.rv, l.tv),
                           !.g[t] = [l EXCEPT !.ref = NilMapRef, !.pc = "m_next"]]
    /\ SequentialIdle

\* compilePrimary (compile.go:320): range asks the capture set for its next
\* entry, and there is none; the read meets an assignment of the other
\* goroutine as the first one does
ThMergeNext(t) ==
    /\ At(t, "m_next")
    /\ LET l == th.g[t]
       IN IF l.cap # NilMapRef /\ Writing(Other(t), l.cap)
          THEN \E how \in {"fatal", "corrupt"} : th' = Dead(how)
          ELSE ThLocal(th, t, [Cleared(l) EXCEPT !.pc = "ret"])
    /\ SequentialIdle

\* Compile (compile.go:64) returns the op; the closure of a closure chunk
\* holds the capture map that compileClosure returned
ThReturnOp(t) ==
    /\ At(t, "ret")
    /\ LET l == th.g[t]
           m == IF l.cap = NilMapRef THEN EmptyMap ELSE th.maps[l.cap]
       IN ThLocal(th, t, Deferred(l, "done", ThResult(ThOp(l.chunk, m), ThNoErr)))
    /\ SequentialIdle

\* stopCompile (compile.go:55) returns: the stores of the zero struct value
\* are done, and Compile has returned
ThStopCompile(t) ==
    /\ At(t, "stop")
    /\ LET l == th.g[t]
       IN ThLocal(Assigned(t), t, [l EXCEPT !.pend = {}, !.over = {}, !.pc = l.out, !.out = ""])
    /\ SequentialIdle

----------------------------------------------------------------------------
(* Inputs and the specifications *)

\* the redirections a form can carry
Redirs ==
    {Redir("close", fd, 0, "", 0) : fd \in 0..MaxFd}
    \cup {Redir("fd", fd, old, "", 0) : fd \in 0..MaxFd, old \in 0..1}
    \cup {Redir("file", fd, 0, v, 5) : fd \in 0..MaxFd, v \in VarNames \cup {""}}

\* every list of at most MaxRedirs redirections
RedirLists == UNION {[1..k -> Redirs] : k \in 0..MaxRedirs}

\* the redirection lists of the forms of a chunk with closures
FewRedirs ==
    {<<>>, <<Redir("file", 1, 0, "fn-f", 5)>>, <<Redir("fd", 2, 1, "", 0)>>}

\* the steps that neither start a Compile call nor enter or leave a closure
FlatStep(rdLists) ==
    \/ CompileReturn
    \/ \E c \in CmdNames : CompileFormString(c)
    \/ \E sh \in BadShapes, n \in VarNames, p \in Positions : CompileFormBad(sh, n, p)
    \/ Running /\ AtRedirs /\ \E rds \in rdLists : CompileRedirs(rds)
    \/ Running /\ AtRedirs /\ \E rds \in rdLists : CompileBadRedir(rds)
    \/ CompileFormReturn
    \/ CompileBadPrimary
    \/ \E n \in VarNames, p \in Positions : CompileVariable(n, p)
    \/ \E c \in CmdNames : CompileSigil(c)
    \/ \E n \in VarNames, t \in Types : SpecialPushVar(n, t)
    \/ \E n \in VarNames : SpecialPopVar(n)
    \/ \E n \in VarNames : SpecialResolveVar(n)

\* Compile calls on chunks of forms and nested closures, each call with a
\* scope map of its own
Next ==
    \/ \E u \in Units, m \in RootScopes : CompileFresh(u, m)
    \/ FlatStep(FewRedirs)
    \/ CompileFormClosure
    \/ CompileClosureEnter
    \/ CompileClosureReturn

Spec == Init /\ [][Next]_vars

\* Compile calls on chunks of forms without closure literals, with every
\* list of redirections and with words of string literals, a call either
\* with a new scope map or with the map of the call before
NextFlat ==
    \/ \E u \in Units, m \in RootScopes : CompileFresh(u, m)
    \/ \E u \in Units : CompileSameMap(u)
    \/ FlatStep(RedirLists)
    \/ CompileWord

SpecFlat == Init /\ [][NextFlat]_vars

\* Compile calls on chunks of forms that have a string command word, every
\* list of redirections and no argument
NextPorts ==
    \/ \E u \in Units, m \in RootScopes : CompileFresh(u, m)
    \/ \E c \in CmdNames : CompileFormString(c)
    \/ Running /\ AtRedirs /\ \E rds \in RedirLists : CompileRedirs(rds)
    \/ CompileFormReturn
    \/ CompileReturn

SpecPorts == Init /\ [][NextPorts]_vars

\* an evaluator with any port table runs the op of one FdRedir; the port
\* it was copied from and the copy are closed, in either order
InitRun ==
    /\ InitCompile
    /\ rt \in {[RtIdle EXCEPT !.ports = t] : t \in PortTables}
    /\ th = ThIdle

NextRun ==
    \/ \E r \in Redirs : RunFdRedir(r)
    \/ CloseOriginal
    \/ CloseDuplicate

SpecRun == InitRun /\ [][NextRun]_vars

\* a chunk and a scope map for each of the two goroutines: the closure
\* against the form, with bindings of fn-f to different types; the closure
\* against the empty chunk, whose scope binds nothing; and the form against
\* the form, one with no binding of fn-f
ConcInputs ==
    LET S == [n \in {"fn-f"} |-> StringType]
        C == [n \in {"fn-f"} |-> ClosureType]
    IN {[chunk |-> <<"closure", "form">>, scope |-> <<S, C>>],
        [chunk |-> <<"closure", "empty">>, scope |-> <<S, EmptyMap>>],
        [chunk |-> <<"form", "form">>, scope |-> <<EmptyMap, S>>]}

\* two goroutines, each with a unit, a chunk and a scope map of its own,
\* call Compile on one Compiler without serialization
InitConc ==
    /\ InitCompile
    /\ rt = RtIdle
    /\ th \in {[ThIdle EXCEPT
                  !.g = [t \in Threads |->
                           Thread(<<IF t = 1 THEN "a.elv" ELSE "b.elv",
                                    Chunk(t, in.chunk[t]).text>>,
                                  in.chunk[t], in.scope[t])]] :
                in \in ConcInputs}

NextConc ==
    \E t \in Threads :
       \/ ThStartCompile(t)
       \/ ThStartReturn(t)
       \/ ThPushLoad(t)
       \/ ThPushAppend(t)
       \/ ThPushStore(t)
       \/ ThResolveLen(t)
       \/ ThResolveSlice(t)
       \/ ThResolveFrame(t)
       \/ ThResolveEnclosedLoad(t)
       \/ ThResolveEnclosedBegin(t)
       \/ ThResolveEnclosedStore(t)
       \/ ThErrorfName(t)
       \/ ThErrorfText(t)
       \/ ThClosureLoad(t)
       \/ ThClosureMake(t)
       \/ ThPopSlice(t)
       \/ ThPopIndex(t)
       \/ ThPopNil(t)
       \/ ThPopSlice2(t)
       \/ ThPopReslice(t)
       \/ ThPopStore(t)
       \/ ThMergeRange(t)
       \/ ThHasVarSlice(t)
       \/ ThHasVarIndex(t)
       \/ ThHasVarFrame(t)
       \/ ThMergeEnclosedLoad(t)
       \/ ThMergeEnclosedBegin(t)
       \/ ThMergeEnclosedStore(t)
       \/ ThMergeNext(t)
       \/ ThReturnOp(t)
       \/ ThStopCompile(t)

SpecConc == InitConc /\ [][NextConc]_vars

----------------------------------------------------------------------------
(* Properties *)

\* compileClosure has just returned
Returned == ev.op = "compileClosure"

\* C1: a name that ResolveVar found in an enclosing frame while the
\* closure's frame was the innermost one is in the capture set the closure
\* returns, whatever the body bound or compiled afterwards
C1_ReferenceBeforeShadowCaptured ==
    Returned => \A n \in ev.resOuter : n \in DOMAIN ev.captured

\* C2: a name that the body bound in the closure's own frame before any
\* resolution of it, and kept bound until the body ended, is not in the
\* capture set the closure returns
C2_BindBeforeReferenceNotCaptured ==
    Returned => \A n \in ev.boundFirst : n \notin DOMAIN ev.captured

\* the closure that returned is nested directly in a closure M
NestedInClosure == Returned /\ ev.frame >= 3

\* the closure that returned is itself nested in the top-level chunk or in
\* another closure, and closures were nested directly in it
\* (frame 1 is the root frame, so every frame from 2 on is a closure's)
IsClosureFrame == Returned /\ ev.frame >= 2

\* C3: transitive capture.  C is the closure that returned, nested directly
\* in a closure M.  A name n that C's body resolved below C's frame and that
\* no frame from C's inwards ever bound is in C's capture set; when M's own
\* frame binds n at that moment, M's capture set (cp.enclosed after the
\* merge) does not receive n.  And when M returns, every name that a closure
\* nested directly in M resolved below its frame, and that no frame from M's
\* inwards ever bound, is in M's capture set.
C3_TransitiveCapture ==
    /\ NestedInClosure =>
          \A n \in ev.free \ ev.boundAll :
             /\ n \in DOMAIN ev.captured
             /\ n \in DOMAIN scopes[Len(scopes)] => n \notin DOMAIN enclosed
    /\ IsClosureFrame =>
          \A n \in ev.kidFree \ ev.boundAll : n \in DOMAIN ev.captured

\* M returns with a name in its capture set that only the closure nested in
\* it referenced
C3_Witness ==
    /\ IsClosureFrame
    /\ \E n \in ev.kidFree \ ev.boundAll :
          n \in DOMAIN ev.captured /\ n \notin ev.resOuter

\* C4: resolveCommand picks one kind in strict priority: UserFunction iff the
\* innermost visible binding of fn-<name> has the closure type, else
\* BuiltinSpecial with its handle iff the name is a special form, else
\* BuiltinFunction with its handle iff the name is a builtin function, else
\* External; never Closure, which only a closure-literal command word gets
C4_ResolutionPriority ==
    /\ ev.op = "resolveCommand" =>
          LET v == FnVar(ev.name)
              i == Innermost(scopes, v)
              user == i # 0 /\ scopes[i][v] = ClosureType
              special == ~user /\ ev.name \in builtinSpecials
              func == ~user /\ ~special /\ ev.name \in builtinFuncs
          IN /\ ev.cr.commandType = commandDefinedFunction <=> user
             /\ ev.cr.commandType = commandBuiltinSpecial <=> special
             /\ ev.cr.commandType = commandBuiltinFunction <=> func
             /\ ev.cr.commandType = commandExternal <=> ~user /\ ~special /\ ~func
             /\ ev.cr.builtinSpecial = (IF special THEN ev.name ELSE Nil)
             /\ ev.cr.builtinFunc = (IF func THEN ev.name ELSE Nil)
             /\ ev.cr.commandType # commandClosure
    /\ Returned => (ev.commandType = commandClosure <=> ev.asCmd)

\* a name registered as special form and as builtin function resolves to
\* the user's function, bound as a closure in an enclosing frame
C4_Witness ==
    /\ ev.op = "resolveCommand"
    /\ ev.name \in builtinSpecials \cap builtinFuncs
    /\ ev.cr.commandType = commandDefinedFunction
    /\ Len(scopes) > 1

\* a step raised a user error with errorf
Raised ==
    \/ ev.op = "variable" /\ ~ev.found
    \/ ev.op = "command"
    \/ ev.op = "redirs" /\ ev.unbound # {}

\* the error value of the Compile call for message msg at position p
CallError(p, msg) == [name |-> call.name, text |-> call.text, pos |-> p, msg |-> msg]

\* the least element of a nonempty set of numbers
Least(S) == CHOOSE k \in S : \A j \in S : k <= j

\* C5: a variable reference whose name no frame binds makes Compile fail
\* with "undefined variable $<name>", the call's name and text and the
\* position of the reference; a reference whose name a frame binds does not
\* raise this error
C5_UndefinedVariable ==
    /\ ev.op = "variable" =>
          IF ev.found
          THEN status = "running" /\ result.err = NoErr
          ELSE /\ status = "failed"
               /\ result = [op |-> NoOp, err |-> CallError(ev.pos, UndefinedMsg(ev.name))]
    /\ ev.op = "command" /\ ev.shape = "variable" =>
          IF ev.found
          THEN result.err.msg # UndefinedMsg(ev.name)
          ELSE /\ status = "failed"
               /\ result = [op |-> NoOp, err |-> CallError(ev.pos, UndefinedMsg(ev.name))]
    /\ ev.op = "redirs" =>
          IF ev.unbound = {}
          THEN status = "running" /\ result.err = NoErr
          ELSE LET r == ev.redirs[Least(ev.unbound)]
               IN /\ status = "failed"
                  /\ result = [op |-> NoOp, err |-> CallError(r.pos, UndefinedMsg(r.fvar))]

\* the reference to an unbound name failed the call of the unit "b.elv"
C5_Witness ==
    /\ ev.op = "variable"
    /\ ~ev.found
    /\ status = "failed"
    /\ result.err.name = "b.elv"
    /\ result.err.pos = 5

\* C6 as claimed: every command word that is not one string or closure
\* primary fails with "command must be a string or closure" at the
\* position of the word
C6_BadCommandWordError ==
    ev.op = "command" =>
        /\ status = "failed"
        /\ result = [op |-> NoOp, err |-> CallError(ev.pos, CommandMsg)]

\* C6 amended: such a command word fails the call; the error is "command
\* must be a string or closure" at the position of the word, unless the word
\* is one primary whose own compilation raises an error first: a variable
\* that no frame binds gives "undefined variable $<name>"
C6_BadCommandWordFirstError ==
    ev.op = "command" =>
        /\ status = "failed"
        /\ result = [op |-> NoOp,
                     err |-> IF ev.shape = "variable" /\ ~ev.found
                             THEN CallError(ev.pos, UndefinedMsg(ev.name))
                             ELSE CallError(ev.pos, CommandMsg)]

\* a command word that is an unbound variable failed with the
\* undefined-variable error
C6_Witness ==
    /\ ev.op = "command"
    /\ ev.shape = "variable"
    /\ ~ev.found
    /\ status = "failed"
    /\ result.err.msg = UndefinedMsg(ev.name)

\* C7 as claimed: a Compile call finds the scope map as its caller built
\* it, also when the call before was given the same map
C7_CallsShareNothing ==
    ev.op = "startCompile" /\ ev.same => scopes[1] = call.scope

\* C8: when compileClosure has returned, every name resolves to what it
\* resolved to when the closure was entered
C8_ScopeIsolation ==
    Returned => Visible(scopes) = ev.before

\* the closure bound a name to another type than the enclosing frame does
C8_Witness ==
    /\ Returned
    /\ \E n \in DOMAIN ev.popped :
          /\ ev.before[n] # Nil
          /\ ev.popped[n] # ev.before[n]
          /\ Visible(scopes)[n] = ev.before[n]

\* the largest element of a nonempty set of numbers
Greatest(S) == CHOOSE k \in S : \A j \in S : j <= k

\* C9: the port table is as long as the largest redirected descriptor plus
\* one, empty without redirections; entry i holds the port op of the last
\* redirection that names descriptor i and is "no override" when none does
C9_PortTable ==
    ev.op = "redirs" /\ ev.unbound = {} =>
        LET rds == ev.redirs
            fds == {rds[k].fd : k \in DOMAIN rds}
        IN /\ Len(ev.ports) = IF fds = {} THEN 0 ELSE Greatest(fds) + 1
           /\ \A i \in 0..(Len(ev.ports) - 1) :
                 IF i \in fds
                 THEN LET last == Greatest({k \in DOMAIN rds : rds[k].fd = i})
                      IN /\ ev.ports[i + 1] # NoPort
                         /\ ev.ports[i + 1].kind = rds[last].kind
                         /\ rds[last].kind = "fd" => ev.ports[i + 1].oldFd = rds[last].oldFd
                         /\ rds[last].kind = "file" => ev.ports[i + 1].fvar = rds[last].fvar
                 ELSE ev.ports[i + 1] = NoPort

\* two redirections of descriptor 2 alone: a table of three entries, the
\* first two "no override", the third the op of the second redirection
C9_Witness ==
    /\ ev.op = "redirs"
    /\ ev.unbound = {}
    /\ Len(ev.redirs) = 2
    /\ ev.redirs[1].fd = 2 /\ ev.redirs[2].fd = 2
    /\ ev.redirs[1].kind = "close" /\ ev.redirs[2].kind = "fd"
    /\ Len(ev.ports) = 3
    /\ ev.ports[1] = NoPort /\ ev.ports[2] = NoPort
    /\ ev.ports[3].kind = "fd"

\* C10: the step that raises an error is the last step of the call: the call
\* has failed, nothing is in progress, and Compile returns that error with a
\* nil op; a call that failed returned an error and no op, a call that
\* succeeded an op and no error
C10_StopsAtFirstError ==
    /\ Raised => status = "failed"
    /\ status = "failed" =>
          /\ Raised
          /\ ctl = <<>> /\ scopes = <<>>
          /\ result.op = NoOp
          /\ result.err # NoErr
          /\ result.err.name = call.name /\ result.err.text = call.text
    /\ status = "done" => result.op # NoOp /\ result.err = NoErr
    /\ status = "running" => result = [op |-> NoOp, err |-> NoErr]

\* an error raised in a redirection ended the call
C10_Witness ==
    /\ status = "failed"
    /\ ev.op = "redirs"
    /\ ev.unbound # {}
    /\ result.op = NoOp
    /\ result.err.msg = UndefinedMsg("fn-f")

\* no frame above the root frame binds n
Unshadowed(s, n) == \A j \in 2..Len(s) : n \notin DOMAIN s[j]

\* C11: while only frame 0 is on the scope stack the capture set is empty,
\* whatever was referenced and whichever closures were compiled before; and
\* a name that frame 0 binds resolves at every depth, to the type frame 0
\* gives it unless a frame above binds it
C11_RootNeverCaptured ==
    /\ Running /\ Len(scopes) = 1 => enclosed = EmptyMap
    /\ Running =>
          \A n \in DOMAIN scopes[1] :
             /\ ResolveVarType(scopes, n) # Nil
             /\ Unshadowed(scopes, n) => ResolveVarType(scopes, n) = scopes[1][n]
    /\ ev.op = "ResolveVar" /\ ev.name \in DOMAIN callerMap =>
          /\ ev.type # Nil
          /\ Unshadowed(scopes, ev.name) => ev.type = callerMap[ev.name]
    /\ ev.op = "variable" /\ ev.name \in DOMAIN callerMap => status = "running"

\* a closure nested in the top-level chunk returned with a root binding in
\* its capture set, and the capture set of the chunk is empty
C11_Witness ==
    /\ Returned
    /\ ev.frame = 2
    /\ Len(scopes) = 1
    /\ \E n \in DOMAIN ev.captured : n \in DOMAIN scopes[1]
    /\ enclosed = EmptyMap

\* C12: compiling a word with sigil s resolves the command s with
\* resolveCommand (a closure bound as fn-<s> wins over a builtin named s)
\* and returns a channel capture of a pipeline of one form that has the
\* constant string s as command, the op of the word as arguments and no port
\* table; compiling a word without sigil returns the op of the word and
\* resolves nothing
C12_SigilExpansion ==
    [][/\ ev'.op = "resolveCommand" /\ ev'.sigil =>
            LET v == FnVar(ev'.name)
                i == Innermost(scopes, v)
                r == ev'.ret
            IN /\ r.kind = "chanCapture"
               /\ r.op.kind = "pipeline"
               /\ Len(r.op.forms) = 1
               /\ r.op.forms[1].kind = "form"
               /\ r.op.forms[1].cmd = [kind |-> "string", text |-> ev'.name]
               /\ r.op.forms[1].args = WordOp
               /\ r.op.forms[1].ports = Nil
               /\ r.op.forms[1].cr = ev'.cr
               /\ (i # 0 /\ scopes[i][v] = ClosureType)
                     <=> ev'.cr.commandType = commandDefinedFunction
               /\ scopes' = scopes
       /\ ev'.op = "compound" =>
            /\ ev'.ret = WordOp
            /\ scopes' = scopes /\ enclosed' = enclosed /\ ctl' = ctl]_vars

\* the sigil f, a builtin special form and function, resolved to the
\* closure bound as fn-f
C12_Witness ==
    /\ ev.op = "resolveCommand"
    /\ ev.sigil
    /\ ev.name = "f"
    /\ ev.cr.commandType = commandDefinedFunction
    /\ ev.ret.kind = "chanCapture"
    /\ ev.ret.op.forms[1].cmd.text = "f"

\* the compileForm calls in progress in both states of a step
SameForms ==
    {j \in DOMAIN ctl \cap DOMAIN ctl' : ctl[j].k = "form" /\ ctl'[j].k = "form"}

\* C13: the command of a form is resolved before its arguments are
\* compiled, and exactly one argument path runs, once: the compile function
\* of the special form when the command resolved to a builtin special form,
\* compileSpaced for every other kind
C13_OneArgumentPath ==
    [][/\ ev'.op = "resolveCommand" /\ ~ev'.sigil =>
            /\ ctl'[Len(ctl')].k = "form"
            /\ ctl'[Len(ctl')].phase = "redirs"
            /\ ctl'[Len(ctl')].special <=>
                  LET v == FnVar(ev'.name)
                      i == Innermost(scopes, v)
                  IN /\ ~(i # 0 /\ scopes[i][v] = ClosureType)
                     /\ ev'.name \in builtinSpecials
       /\ ev'.op = "compileClosure" /\ ev'.asCmd =>
            /\ ctl'[Len(ctl')].phase = "redirs"
            /\ ~ctl'[Len(ctl')].special
       /\ \A j \in SameForms :
            /\ ctl'[j].special = ctl[j].special
            /\ ctl[j].phase = "cmdword" => ctl'[j].phase \in {"cmdword", "redirs"}
            /\ ctl[j].phase = "redirs" =>
                  ctl'[j].phase \in {"redirs", IF ctl[j].special THEN "special" ELSE "args"}
            /\ ctl[j].phase \in {"args", "special"} => ctl'[j].phase = ctl[j].phase
       /\ ev'.op \in {"pushVar", "popVar", "ResolveVar"} =>
            ctl[Len(ctl)].phase = "special" /\ ctl[Len(ctl)].special]_vars

\* a special form nested in a closure is bound and compiled by its own
\* compile function while the form around the closure goes through
\* compileSpaced
C13_Witness ==
    /\ ev.op = "pushVar"
    /\ Len(ctl) = 3
    /\ ctl[1].k = "form" /\ ctl[1].phase = "args" /\ ~ctl[1].special
    /\ ctl[3].k = "form" /\ ctl[3].phase = "special" /\ ctl[3].special

\* C14: the port the op of an fd-duplicate redirection produces has the
\* file and the channel of the evaluator's port oldFd and both close flags
\* cleared; the evaluator's ports are left as they were; closing the
\* original and the duplicate, in any order, closes the file and the channel
\* at most once, and closing the duplicate closes neither
C14_FdDuplicate ==
    [][/\ rt'.ports = rt.ports
       /\ rt'.src >= 0 =>
            LET o == rt'.ports[rt'.src + 1]
            IN /\ rt'.dup.f = o.f
               /\ rt'.dup.ch = o.ch
               /\ ~rt'.dup.closeF
               /\ ~rt'.dup.closeCh
       /\ rt'.nF <= 1
       /\ rt'.nCh <= 1
       /\ ~rt'.byDup]_vars

\* port 1, which closes its file and its channel, was duplicated; the
\* duplicate and the original were both closed: one closing of each
C14_Witness ==
    /\ rt.src = 1
    /\ rt.ports[2] = [f |-> "s", ch |-> "c", closeF |-> TRUE, closeCh |-> TRUE]
    /\ rt.closedOrig /\ rt.closedDup
    /\ rt.nF = 1 /\ rt.nCh = 1

\* what the Compile call of goroutine t returns when no other call runs
Alone(t) ==
    LET l == th.g[t]
    IN IF l.chunk = "empty" THEN ThResult(ThOp("empty", EmptyMap), ThNoErr)
       ELSE IF "fn-f" \notin DOMAIN l.scope
       THEN ThResult(ThOp("nil", EmptyMap),
                     [name |-> Str(l.unit[1]), text |-> Str(l.unit[2]),
                      pos |-> Chunk(1, l.chunk).pos, msg |-> UndefinedMsg("fn-f")])
       ELSE IF l.chunk = "form" THEN ThResult(ThOp("form", EmptyMap), ThNoErr)
       ELSE ThResult(ThOp("closure", [n \in {"fn-f"} |-> l.scope[n]]), ThNoErr)

\* C15: calls that overlap on one Compiler are not safe.  Nothing
\* serializes them: while one call is in progress the other can begin, and
\* the stores of its startCompile and of its stopCompile can be done.  These
\* stores replace the scope stack and the capture set that the call in
\* progress is using: when that call next loads the length or the pointer
\* of cp.scopes, or cp.enclosed, it can find the word that the other call
\* is storing.  And only by that does a call go wrong: a call that resolves
\* against a frame of the other call's scope stack, that indexes cp.scopes
\* when it is empty, or that does not return what it returns alone, is a
\* call that the other call overlapped (the witness shows that such calls
\* exist)
C15_OverlapReplacesState ==
    \A t \in Threads :
       th.g # <<>> =>
          /\ (th.proc = "running" /\ InProgress(Other(t))) =>
                /\ th.g[t].pc = "idle" => ENABLED ThStartCompile(t)
                /\ th.g[t].pc = "start" => ENABLED ThStartReturn(t)
                /\ th.g[t].pc = "stop" => ENABLED ThStopCompile(t)
          /\ (th.proc = "running" /\ th.g[t].pc = "rv_len" /\ 6 \in th.g[Other(t)].pend) =>
                ENABLED (ThResolveLen(t)
                           /\ th'.cp.scopes.len
                                = {[by |-> Other(t), val |-> InFlight(Other(t)).scopes.len]})
          /\ (th.proc = "running" /\ th.g[t].pc = "rv_hdr" /\ 5 \notin th.g[t].moved
                /\ 5 \in th.g[Other(t)].pend) =>
                ENABLED (ThResolveSlice(t)
                           /\ th'.g[t].v.scopes.arr = InFlight(Other(t)).scopes.arr)
          /\ (th.proc = "running" /\ th.g[t].pc = "c113" /\ 8 \in th.g[Other(t)].pend) =>
                ENABLED (ThClosureLoad(t) /\ th'.g[t].cap = InFlight(Other(t)).enclosed)
          /\ (\/ th.g[t].wrong
              \/ th.g[t].empty
              \/ th.g[t].pc \in {"panicked", "fatal", "corrupt"}
              \/ th.g[t].pc \in {"done", "failed"} /\ th.g[t].res # Alone(t)) =>
                th.g[t].overlapped

\* one call has resolved fn-f against a frame of the other call's scope
\* stack and has returned something else than it returns alone; the other
\* call has indexed the scope stack when it was empty, and has panicked
C15_Witness ==
    /\ th.g # <<>>
    /\ \E t \in Threads :
          /\ th.g[t].pc = "panicked"
          /\ th.g[t].empty
          /\ th.g[Other(t)].pc \in {"done", "failed"}
          /\ th.g[Other(t)].wrong
          /\ th.g[Other(t)].res # Alone(Other(t))

\* C16: a primary of unknown type or a redirection of unknown variant ends
\* the Compile call by a panic: Compile returns neither an op nor an error
\* value, the traversal stops there, and the call is neither reported as
\* done nor as failed
C16_InternalPanic ==
    /\ ev.op = "panic" =>
          /\ status = "panicked"
          /\ result = [op |-> NoOp, err |-> NoErr]
          /\ ctl = <<>>
    /\ status = "panicked" => ev.op = "panic"
    /\ status \in {"done", "failed"} => ev.op # "panic"

\* a redirection of unknown variant made the call panic
C16_Witness ==
    /\ status = "panicked"
    /\ ev.op = "panic"
    /\ ev.what = "bad Redir type"
    /\ result.op = NoOp

\* C17 as claimed: every name of the capture set compileClosure returns was
\* resolved, while the body of that closure was compiled (closures nested
\* in it included), to a binding in a frame below the closure's own frame
C17_CapturesOnlyResolved ==
    Returned => \A n \in DOMAIN ev.captured : n \in ev.free

\* C18: while a Compile call runs the scope stack has at least one frame
\* and frame 0 is the map the caller passed; popScope runs only with a
\* closure's frame on the stack; compileClosure returns with the depth it
\* was entered with; a call that succeeds ends at depth 1
C18_StackDiscipline ==
    [][/\ status' = "running" => Len(scopes') >= 1 /\ scopes'[1] = callerMap'
       /\ ev'.op = "compileClosure" =>
             /\ Len(scopes) >= 2
             /\ Len(scopes') = Len(scopes) - 1
             /\ Len(scopes') = ev'.frame - 1
       /\ ev'.op = "pushScope" => Len(scopes') = Len(scopes) + 1
       /\ ev'.op \notin {"compileClosure", "pushScope", "startCompile"} /\ status' = "running" =>
             Len(scopes') = Len(scopes)
       /\ status = "running" /\ status' = "done" => Len(scopes) = 1]_vars

\* a closure nested in a closure returned, its frame held a binding, and
\* the stack is back at the depth of the enclosing closure
C18_Witness ==
    /\ Returned
    /\ ev.frame = 3
    /\ ev.popped # EmptyMap
    /\ Len(scopes) = 2
    /\ scopes[1] = callerMap

\* C19: startCompile installs the call's name and text, a scope stack that
\* holds only the root scope and an empty capture set; however the call
\* ends (op, user error, panic, inside a nested closure or not), name, text,
\* scope stack and capture set are back at their zero values, so the next
\* call on this Compiler starts with nothing of this one
C19_EphemeralState ==
    /\ ev.op = "startCompile" =>
          /\ status = "running"
          /\ name = call.name /\ text = call.text
          /\ scopes = <<callerMap>>
          /\ enclosed = EmptyMap
    /\ status \in {"idle", "done", "failed", "panicked"} =>
          /\ name = "" /\ text = ""
          /\ scopes = <<>>
          /\ enclosed = EmptyMap
          /\ ctl = <<>>

\* a panic in a closure nested in a closure, two frames not yet popped:
\* the compiler is back at its zero state
C19_Witness ==
    /\ status = "panicked"
    /\ ev.depth = 3
    /\ scopes = <<>>
    /\ enclosed = EmptyMap
    /\ name = ""

\* C20: resolving a command name, for a command word or for a sigil, leaves
\* the scope stack alone and changes the capture set at most by the entry
\* of fn-<name>: the entry is set, to the bound type, exactly when the
\* innermost binding of fn-<name> is in a frame below the innermost frame,
\* of whatever type and whatever the command resolves to; otherwise the
\* capture set is unchanged
C20_ResolveCommandFrame ==
    [][ev'.op = "resolveCommand" =>
          LET v == FnVar(ev'.name)
              i == Innermost(scopes, v)
          IN /\ scopes' = scopes
             /\ enclosed' = IF i # 0 /\ i < Len(scopes)
                            THEN MapPut(enclosed, v, scopes[i][v])
                            ELSE enclosed]_vars

\* the command f resolved to the builtin special form while fn-f, bound as
\* a string in an enclosing frame, is in the capture set
C20_Witness ==
    /\ ev.op = "resolveCommand"
    /\ ev.name = "f"
    /\ ev.cr.commandType = commandBuiltinSpecial
    /\ Len(scopes) >= 2
    /\ Innermost(scopes, "fn-f") \in 1..(Len(scopes) - 1)
    /\ "fn-f" \in DOMAIN enclosed
    /\ enclosed["fn-f"] = StringType

====
